---- MODULE Spec2Model ----
(***************************************************************************)
(* Model of NetTopology (net/topology.py): build, reconfig, warmUp and the *)
(* two snapshot writers, together with the collaborators they call         *)
(* (cache stores, coloring engine, warm-up routing).                       *)
(***************************************************************************)
EXTENDS Integers, Sequences, FiniteSets, TLC

(* ------------------------------------------------------------------ *)
(* Bounds                                                              *)
(* ------------------------------------------------------------------ *)
MaxCalls == 1        \* reconfig calls made by the optimisation loop
MaxCacheSize == 2    \* largest entry of a cacheSizeList
MaxLive == 3         \* live requests served between two reconfig calls
MaxWritten == 1      \* tokens a failing write leaves behind, at most

(* ------------------------------------------------------------------ *)
(* Values                                                              *)
(* ------------------------------------------------------------------ *)
None == "None"
NoColor == -1                 \* ColorCache(None, ...): no colour yet
RatioDen == 2                 \* capacityRatio is written as n / RatioDen
WeightScale == 4              \* weight = 1/bw, kept integral as 4/bw
Modes == {"no-cache", "no-color", "tag-color", "color"}
RunIndexes == {0, 1}

Router(id, type, maxSize, ratio) ==
    [ID |-> id, hasType |-> TRUE, type |-> type, maxSize |-> maxSize,
     capacityRatio |-> ratio]
Plain(id) ==
    [ID |-> id, hasType |-> FALSE, type |-> None, maxSize |-> 0,
     capacityRatio |-> 0]
Client(id, gw) == [ID |-> id, gateway |-> gw, isTemp |-> FALSE]
Link(a, b, bw) == [n1 |-> a, n2 |-> b, bw |-> bw]

\* two clients, a pass-through router declared between the two
\* cache-capable ones; trace replay with a fixed file size, so alpha = 1
NetA ==
    [Routers |-> << Router("r1", "LRU", 2, 0), Plain("r2"),
                    Router("r3", "Hybrid", 2, 1), Plain("mainServer") >>,
     Clients |-> << Client("client1", "r1"), Client("client2", "r2") >>,
     Links |-> << Link("client1", "r1", 4), Link("r1", "r3", 4),
                  Link("r3", "mainServer", 4), Link("client2", "r2", 4),
                  Link("r2", "r3", 4), Link("r1", "mainServer", 1) >>,
     FileSize |-> 1,
     RequestModels |-> [kind |-> "custom", alpha |-> 3, contentNums |-> 3,
                        custom_data |-> [c \in {"Cache1", "Cache2"} |->
                                           IF c = "Cache1" THEN << 1, 2 >>
                                           ELSE << 2, 3 >>]]]

\* trace replay with FileSize = -1, so that alpha comes from the trace block
NetB ==
    [Routers |-> << Router("r1", "LFU", 1, 0), Plain("mainServer"),
                    Router("r2", "FIFO", 1, 0) >>,
     Clients |-> << Client("client1", "r1") >>,
     Links |-> << Link("client1", "r1", 2), Link("r1", "r2", 2),
                  Link("r2", "mainServer", 2) >>,
     FileSize |-> -1,
     RequestModels |-> [kind |-> "custom", alpha |-> 2, contentNums |-> 3,
                        custom_data |-> [c \in {"Cache1"} |-> << 1, 2, 1, 3 >>]]]

\* one client, one LRU router, the origin; trace replay
NetC ==
    [Routers |-> << Router("r1", "LRU", 2, 0), Plain("mainServer") >>,
     Clients |-> << Client("client1", "r1") >>,
     Links |-> << Link("client1", "r1", 1), Link("r1", "mainServer", 1) >>,
     FileSize |-> 1,
     RequestModels |-> [kind |-> "custom", alpha |-> 3, contentNums |-> 3,
                        custom_data |-> [c \in {"Cache1"} |-> << 1, 2, 3, 1 >>]]]

\* one Hybrid router, two colours, requests drawn from a Zipf model
NetD ==
    [Routers |-> << Router("r1", "Hybrid", 2, 1), Plain("mainServer") >>,
     Clients |-> << Client("client1", "r1") >>,
     Links |-> << Link("client1", "r1", 2), Link("r1", "mainServer", 2) >>,
     FileSize |-> 1,
     RequestModels |-> [kind |-> "zipf", alpha |-> 1, contentNums |-> 3,
                        custom_data |-> << >>]]

\* constructor arguments that go with each configuration
Scenarios ==
    { [config |-> NetA, fileSize |-> 1, colorList |-> << 0, 1 >>, warmUpReqNums |-> 2],
      [config |-> NetB, fileSize |-> 1, colorList |-> << >>, warmUpReqNums |-> 2],
      [config |-> NetC, fileSize |-> 1, colorList |-> << >>, warmUpReqNums |-> 2],
      [config |-> NetD, fileSize |-> 1, colorList |-> << 0, 1 >>, warmUpReqNums |-> 2] }

\* the content universe: identifiers 1 .. contentNums
Contents(info) == 1..info.RequestModels.contentNums

\* client.replace("client", "Cache")
ReplaceClientCache(client) ==
    CASE client = "client1" -> "Cache1"
      [] client = "client2" -> "Cache2"
      [] OTHER -> client

Range(s) == {s[i] : i \in 1..Len(s)}
Min(a, b) == IF a <= b THEN a ELSE b

RECURSIVE SeqsOfLen(_, _)
SeqsOfLen(S, n) ==
    IF n = 0 THEN {<< >>}
    ELSE {Append(s, x) : s \in SeqsOfLen(S, n - 1), x \in S}

(* ------------------------------------------------------------------ *)
(* Cache stores                                                        *)
(* ------------------------------------------------------------------ *)
Entry(c, size) == [id |-> c, size |-> size, cnt |-> 1]

NewStore(gen, type, ratio, maxSize) ==
    [gen |-> gen, type |-> type, maxSize |-> maxSize, ratio |-> ratio,
     color |-> NoColor, items |-> << >>, overflow |-> << >>]

LRUCache(gen, maxSize) == NewStore(gen, "LRU", 0, maxSize)
LFUCache(gen, maxSize) == NewStore(gen, "LFU", 0, maxSize)
FIFOCache(gen, maxSize) == NewStore(gen, "FIFO", 0, maxSize)
ColorCache(gen, ratio, maxSize) == NewStore(gen, "Hybrid", ratio, maxSize)

RECURSIVE SumSizes(_)
SumSizes(es) == IF es = << >> THEN 0 ELSE Head(es).size + SumSizes(Tail(es))

Ids(es) == {es[i].id : i \in 1..Len(es)}
Occupied(s) == SumSizes(s.items) + SumSizes(s.overflow)
Has(s, c) == c \in Ids(s.items) \cup Ids(s.overflow)

Without(es, c) == SelectSeq(es, LAMBDA e : e.id # c)
IndexOf(es, c) == CHOOSE i \in 1..Len(es) : es[i].id = c
MoveToEnd(es, c) == Append(Without(es, c), es[IndexOf(es, c)])
Bump(es, c) ==
    [i \in 1..Len(es) |->
        IF es[i].id = c THEN [es[i] EXCEPT !.cnt = @ + 1] ELSE es[i]]

\* position of the entry LFU evicts: lowest counter, oldest insertion first
MinCntIndex(es) ==
    CHOOSE i \in 1..Len(es) :
        /\ \A j \in 1..Len(es) : es[i].cnt <= es[j].cnt
        /\ \A j \in 1..(i - 1) : es[j].cnt > es[i].cnt
DropIndex(es, i) == SubSeq(es, 1, i - 1) \o SubSeq(es, i + 1, Len(es))

RECURSIVE EvictHeadUntil(_, _, _)
EvictHeadUntil(es, size, cap) ==
    IF es = << >> \/ SumSizes(es) + size <= cap THEN es
    ELSE EvictHeadUntil(Tail(es), size, cap)

RECURSIVE EvictMinUntil(_, _, _)
EvictMinUntil(es, size, cap) ==
    IF es = << >> \/ SumSizes(es) + size <= cap THEN es
    ELSE EvictMinUntil(DropIndex(es, MinCntIndex(es)), size, cap)

ColorOf(c, nColors) == c % nColors
IsOwn(s, c, nColors) == s.color # NoColor /\ ColorOf(c, nColors) = s.color

\* lookup that hits: the policy's bookkeeping
Touch(s, c) ==
    CASE s.type = "LRU" -> [s EXCEPT !.items = MoveToEnd(@, c)]
      [] s.type = "LFU" -> [s EXCEPT !.items = Bump(@, c)]
      [] s.type = "FIFO" -> s
      [] s.type = "Hybrid" ->
            IF c \in Ids(s.items)
            THEN [s EXCEPT !.items = MoveToEnd(@, c)]
            ELSE [s EXCEPT !.overflow = MoveToEnd(@, c)]

\* an insert that makes room by eviction without looking at the capacity first
InsertNoSizeCheck(s, c, size, nColors) ==
    IF Has(s, c) THEN s
    ELSE CASE s.type \in {"LRU", "FIFO"} ->
                [s EXCEPT !.items =
                    Append(EvictHeadUntil(@, size, s.maxSize), Entry(c, size))]
           [] s.type = "LFU" ->
                [s EXCEPT !.items =
                    Append(EvictMinUntil(@, size, s.maxSize), Entry(c, size))]
           [] s.type = "Hybrid" ->
                IF IsOwn(s, c, nColors)
                THEN [s EXCEPT !.items =
                        Append(EvictHeadUntil(@, size,
                                 (s.ratio * s.maxSize) \div RatioDen),
                               Entry(c, size))]
                ELSE [s EXCEPT !.overflow =
                        Append(EvictHeadUntil(@, size,
                                 s.maxSize - (s.ratio * s.maxSize) \div RatioDen),
                               Entry(c, size))]

\* insert on a miss; an item larger than the region it goes to is not cached
Insert(s, c, size, nColors) ==
    IF Has(s, c) \/ size > s.maxSize THEN s
    ELSE CASE s.type \in {"LRU", "FIFO"} ->
                [s EXCEPT !.items =
                    Append(EvictHeadUntil(@, size, s.maxSize), Entry(c, size))]
           [] s.type = "LFU" ->
                [s EXCEPT !.items =
                    Append(EvictMinUntil(@, size, s.maxSize), Entry(c, size))]
           [] s.type = "Hybrid" ->
                IF IsOwn(s, c, nColors)
                THEN IF size * RatioDen > s.ratio * s.maxSize THEN s
                     ELSE [s EXCEPT !.items =
                            Append(EvictHeadUntil(@, size,
                                     (s.ratio * s.maxSize) \div RatioDen),
                                   Entry(c, size))]
                ELSE IF size > s.maxSize - (s.ratio * s.maxSize) \div RatioDen
                     THEN s
                     ELSE [s EXCEPT !.overflow =
                            Append(EvictHeadUntil(@, size,
                                     s.maxSize - (s.ratio * s.maxSize) \div RatioDen),
                                   Entry(c, size))]

SetServerColor(s, colorId) == [s EXCEPT !.color = colorId]

(* ------------------------------------------------------------------ *)
(* Graph                                                               *)
(* ------------------------------------------------------------------ *)
EmptyGraph == [nodes |-> {}, gw |-> << >>, edges |-> {}]
AddNode(g, n) == [g EXCEPT !.nodes = @ \cup {n}]
AddClientNode(g, n, gateway) ==
    [g EXCEPT !.nodes = @ \cup {n},
              !.gw = [c \in DOMAIN @ \cup {n} |->
                        IF c = n THEN gateway ELSE @[c]]]
AddEdge(g, a, b, w) ==
    [g EXCEPT !.nodes = @ \cup {a, b},
              !.edges = {e \in @ : {e.n1, e.n2} # {a, b}}
                          \cup {[n1 |-> a, n2 |-> b, weight |-> w]}]

Adjacent(g, a, b) == \E e \in g.edges : {e.n1, e.n2} = {a, b}
EdgeWeight(g, a, b) == (CHOOSE e \in g.edges : {e.n1, e.n2} = {a, b}).weight

\* simple paths that start with the node sequence p and end in dst
RECURSIVE PathsFrom(_, _, _)
PathsFrom(g, p, dst) ==
    IF p[Len(p)] = dst THEN {p}
    ELSE UNION {PathsFrom(g, Append(p, n), dst) :
                  n \in {m \in g.nodes : Adjacent(g, p[Len(p)], m)
                                           /\ m \notin Range(p)}}

RECURSIVE PathWeight(_, _)
PathWeight(g, p) ==
    IF Len(p) < 2 THEN 0
    ELSE EdgeWeight(g, p[1], p[2]) + PathWeight(g, Tail(p))

HasPath(g, src, dst) == PathsFrom(g, << src >>, dst) # {}
ShortestPath(g, src, dst) ==
    CHOOSE p \in PathsFrom(g, << src >>, dst) :
        \A q \in PathsFrom(g, << src >>, dst) :
            PathWeight(g, p) <= PathWeight(g, q)
Distance(g, src, dst) == PathWeight(g, ShortestPath(g, src, dst))

(* ------------------------------------------------------------------ *)
(* Serialisation: pickle.dump writes a token stream that ends in STOP  *)
(* ------------------------------------------------------------------ *)
Tok(op, key, val) == [op |-> op, key |-> key, val |-> val]

RECURSIVE DumpItems(_, _)
DumpItems(keys, d) ==
    IF keys = << >> THEN << >>
    ELSE << Tok("KEY", Head(keys), << >>), Tok("VAL", "", << d[Head(keys)] >>) >>
            \o DumpItems(Tail(keys), d)

\* keys is the dictionary's insertion order
PickleDump(keys, d) ==
    << Tok("DICT", "", << >>) >> \o DumpItems(keys, d) \o << Tok("STOP", "", << >>) >>

IsCompletePickle(data) == data # << >> /\ data[Len(data)].op = "STOP"

PickleLoad(data) ==
    [k \in {data[i].key : i \in {j \in 1..Len(data) : data[j].op = "KEY"}} |->
        data[(CHOOSE i \in 1..Len(data) :
                data[i].op = "KEY" /\ data[i].key = k) + 1].val[1]]

NoFile == [exists |-> FALSE, data |-> << >>]
CacheDictPath(idx) ==
    CASE idx = 0 -> "cacheDict0.pkl"
      [] idx = 1 -> "cacheDict1.pkl"
NearestPath == "nearestColorServerInfo.pkl"
FilePaths == {CacheDictPath(i) : i \in RunIndexes} \cup {NearestPath}

(* ------------------------------------------------------------------ *)
(* State                                                               *)
(* ------------------------------------------------------------------ *)
VARIABLES
    pc,               \* position of the (single) thread inside NetTopology
    caller,           \* which entry point called warmUp: build or reconfig
    mode, networkInfo, fileSize, colorList, warmUpReqNums,   \* constructor arguments
    alpha, contentGenerator, clientIds, routerIds, graph,
    cacheMemoryDict,  \* router id -> store
    parallel_idx,
    serverToColorMap, colorRouteInfo,
    warmUpReqDict,    \* warmUp's local: client -> request batch
    pending,          \* requests the routing simulator has still to serve
    hits, misses,     \* totals of the routing simulator
    files,            \* configDirPath: path -> [exists, data]
    handles,          \* paths with an open file object
    exc,              \* exception that reached the caller, or None
    calls,            \* reconfig calls so far
    gen,              \* allocation stamp given to newly created stores
    warmUpRuns,       \* warmUp invocations since the current call began
    dumps,            \* pickle.dump calls since the current call began
    cacheSizeList,    \* argument of the current reconfig call
    live,             \* live requests since the last build / reconfig
    recency           \* per router configured LRU: ids by last insert-or-hit

vars == << pc, caller, mode, networkInfo, fileSize, colorList, warmUpReqNums, alpha,
           contentGenerator, clientIds, routerIds, graph, cacheMemoryDict,
           parallel_idx, serverToColorMap, colorRouteInfo, warmUpReqDict,
           pending, hits, misses, files, handles, exc, calls, gen,
           warmUpRuns, dumps, cacheSizeList, live, recency >>

ctorVars == << mode, networkInfo, fileSize, colorList, warmUpReqNums >>
buildVars == << alpha, contentGenerator, clientIds, routerIds, graph >>
colorVars == << serverToColorMap, colorRouteInfo >>
routeVars == << warmUpReqDict, pending, hits, misses >>
fileVars == << files, handles >>
callVars == << caller, calls, gen, cacheSizeList, parallel_idx >>

\* __init__
Init ==
    /\ pc = "new"
    /\ caller = None
    /\ mode \in Modes
    /\ \E sc \in Scenarios :
          /\ networkInfo = sc.config
          /\ fileSize = sc.fileSize
          /\ colorList = sc.colorList
          /\ warmUpReqNums = sc.warmUpReqNums
    /\ alpha = 0
    /\ contentGenerator = [dist |-> None, custom_data |-> << >>]
    /\ clientIds = << >>
    /\ routerIds = << >>
    /\ graph = EmptyGraph
    /\ cacheMemoryDict = << >>
    /\ parallel_idx = 0
    /\ serverToColorMap = << >>
    /\ colorRouteInfo = << >>
    /\ warmUpReqDict = << >>
    /\ pending = << >>
    /\ hits = 0
    /\ misses = 0
    /\ files = [p \in FilePaths |-> NoFile]
    /\ handles = {}
    /\ exc = None
    /\ calls = 0
    /\ gen = 0
    /\ warmUpRuns = 0
    /\ dumps = 0
    /\ cacheSizeList = << >>
    /\ live = 0
    /\ recency = << >>

(* ------------------------------------------------------------------ *)
(* build and reconfig                                                  *)
(* ------------------------------------------------------------------ *)
CacheCapable(routers) ==
    SelectSeq(routers, LAMBDA r : r.hasType)
CapableIds(routers) == {r.ID : r \in Range(CacheCapable(routers))}
IdsOf(infos) == [i \in 1..Len(infos) |-> infos[i].ID]

\* routers whose configured policy is LRU
LruRouters(info) ==
    {r.ID : r \in {x \in Range(info.Routers) : x.hasType /\ x.type = "LRU"}}

\* nothing has been inserted or hit yet in the stores of d
NoRecency(info, d) == [r \in LruRouters(info) \cap DOMAIN d |-> << >>]

\* the request for c reached the stores in touched; d2 is the mapping after
\* it: c becomes the most recent id of those stores, ids that are gone
\* are forgotten
Recent(rec, d2, touched, c) ==
    [r \in DOMAIN rec |->
        IF r \in touched
        THEN SelectSeq(Append(SelectSeq(rec[r], LAMBDA x : x # c), c),
                       LAMBDA x : x \in Ids(d2[r].items))
        ELSE rec[r]]

\* a router configured LRU is given a first-in-first-out store
MakeStoreLruAsFifo(g, routerInfo, maxSize) ==
    CASE routerInfo.type = "LRU" -> FIFOCache(g, maxSize)
      [] routerInfo.type = "LFU" -> LFUCache(g, maxSize)
      [] routerInfo.type = "FIFO" -> FIFOCache(g, maxSize)
      [] routerInfo.type = "Hybrid" ->
            ColorCache(g, routerInfo.capacityRatio, maxSize)

\* a Hybrid store that is not given the router's capacityRatio
MakeStoreHybridNoRatio(g, routerInfo, maxSize) ==
    CASE routerInfo.type = "LRU" -> LRUCache(g, maxSize)
      [] routerInfo.type = "LFU" -> LFUCache(g, maxSize)
      [] routerInfo.type = "FIFO" -> FIFOCache(g, maxSize)
      [] routerInfo.type = "Hybrid" -> ColorCache(g, RatioDen, maxSize)

\* the constructor chosen by the router's type
MakeStore(g, routerInfo, maxSize) ==
    CASE routerInfo.type = "LRU" -> LRUCache(g, maxSize)
      [] routerInfo.type = "LFU" -> LFUCache(g, maxSize)
      [] routerInfo.type = "FIFO" -> FIFOCache(g, maxSize)
      [] routerInfo.type = "Hybrid" ->
            ColorCache(g, routerInfo.capacityRatio, maxSize)

\* a build that takes the trace block's alpha whatever the file size is
BuildAlphaAnyFileSize(info) ==
    IF info.RequestModels.kind # "custom" THEN 1 ELSE info.RequestModels.alpha

BuildAlpha(info) ==
    IF info.RequestModels.kind # "custom" THEN 1
    ELSE IF info.FileSize = -1 THEN info.RequestModels.alpha ELSE 1

\* a build that leaves the allocation to reconfig
BuildStoresNone(info, a, g) == << >>

BuildStores(info, a, g) ==
    [id \in CapableIds(info.Routers) |->
        LET r == CHOOSE x \in Range(info.Routers) : x.ID = id
        IN  MakeStore(g, r, r.maxSize * a)]

RECURSIVE BuildEdges(_, _)
BuildEdges(g, links) ==
    IF links = << >> THEN g
    ELSE BuildEdges(AddEdge(g, Head(links).n1, Head(links).n2,
                            WeightScale \div Head(links).bw),
                    Tail(links))

RECURSIVE BuildClients(_, _)
BuildClients(g, clients) ==
    IF clients = << >> THEN g
    ELSE BuildClients(AddClientNode(g, Head(clients).ID, Head(clients).gateway),
                      Tail(clients))

RECURSIVE BuildRouters(_, _)
BuildRouters(g, routers) ==
    IF routers = << >> THEN g
    ELSE BuildRouters(AddNode(g, Head(routers).ID), Tail(routers))

BuildGraph(g, info) ==
    BuildEdges(BuildClients(BuildRouters(g, info.Routers), info.Clients),
               info.Links)

\* list.remove(x): drops the first occurrence
Remove(s, x) ==
    LET i == CHOOSE k \in 1..Len(s) : s[k] = x /\ \A j \in 1..(k - 1) : s[j] # x
    IN  SubSeq(s, 1, i - 1) \o SubSeq(s, i + 1, Len(s))

\* build(), up to the call of warmUp
Build ==
    /\ pc = "new"
    /\ alpha' = BuildAlpha(networkInfo)
    /\ contentGenerator' =
          IF networkInfo.RequestModels.kind # "custom"
          THEN [dist |-> networkInfo.RequestModels.kind, custom_data |-> << >>]
          ELSE [dist |-> None,
                custom_data |-> networkInfo.RequestModels.custom_data]
    /\ routerIds' = Remove(IdsOf(networkInfo.Routers), "mainServer")
    /\ clientIds' = IdsOf(networkInfo.Clients)
    /\ graph' = BuildGraph(graph, networkInfo)
    /\ gen' = gen + 1
    /\ cacheMemoryDict' = BuildStores(networkInfo, BuildAlpha(networkInfo), gen + 1)
    /\ caller' = "build"
    /\ warmUpRuns' = 0
    /\ dumps' = 0
    /\ live' = 0
    /\ recency' = NoRecency(networkInfo, cacheMemoryDict')
    /\ pc' = "warmUp"
    /\ UNCHANGED << ctorVars, parallel_idx, colorVars, routeVars, fileVars,
                    exc, calls, cacheSizeList >>

\* an allocation loop that keeps the store a router already has and only
\* gives it the new capacity
ReconfigStoresResize(routers, sizes, a, g) ==
    LET capable == CacheCapable(routers)
        served == {i \in 1..Len(capable) : i <= Len(sizes)}
    IN  [id \in {capable[i].ID : i \in served} |->
            LET i == CHOOSE k \in served : capable[k].ID = id
            IN  IF id \in DOMAIN cacheMemoryDict
                THEN [cacheMemoryDict[id] EXCEPT !.maxSize = sizes[i] * a]
                ELSE MakeStore(g, capable[i], sizes[i] * a)]

\* an allocation loop whose index advances on every router, typed or not
ReconfigStoresIdxAll(routers, sizes, a, g) ==
    LET served == {i \in 1..Len(routers) : routers[i].hasType /\ i <= Len(sizes)}
    IN  [id \in {routers[i].ID : i \in served} |->
            LET i == CHOOSE k \in served : routers[k].ID = id
            IN  MakeStore(g, routers[i], sizes[i] * a)]

\* the allocation loop of reconfig: the typed routers, in declaration order,
\* that find an entry in cacheSizeList
ReconfigStores(routers, sizes, a, g) ==
    LET capable == CacheCapable(routers)
        served == {i \in 1..Len(capable) : i <= Len(sizes)}
    IN  [id \in {capable[i].ID : i \in served} |->
            LET i == CHOOSE k \in served : capable[k].ID = id
            IN  MakeStore(g, capable[i], sizes[i] * a)]

CacheSizeLists(n) ==
    SeqsOfLen(0..MaxCacheSize, n)
        \cup (IF n > 0 THEN SeqsOfLen(0..MaxCacheSize, n - 1) ELSE {})

\* what reconfig does once the stores are allocated: self.warmUp()
AfterAllocSkip == "idle"
AfterAlloc == "warmUp"

\* reconfig(cacheSizeList, parallel_idx), up to the call of warmUp
Reconfig ==
    /\ pc \in {"idle", "raised"}
    /\ calls < MaxCalls
    /\ \E idx \in RunIndexes :
       \E sizes \in CacheSizeLists(Len(CacheCapable(networkInfo.Routers))) :
          /\ parallel_idx' = idx
          /\ cacheSizeList' = sizes
          /\ cacheMemoryDict' =
                ReconfigStores(networkInfo.Routers, sizes, alpha, gen + 1)
          /\ IF Len(sizes) < Len(CacheCapable(networkInfo.Routers))
             THEN pc' = "raised" /\ exc' = "IndexError"
             ELSE pc' = AfterAlloc /\ exc' = None
    /\ gen' = gen + 1
    /\ calls' = calls + 1
    /\ caller' = "reconfig"
    /\ warmUpRuns' = 0
    /\ dumps' = 0
    /\ live' = 0
    /\ recency' = NoRecency(networkInfo, cacheMemoryDict')
    /\ UNCHANGED << ctorVars, buildVars, colorVars, routeVars, fileVars >>

(* ------------------------------------------------------------------ *)
(* warmUp                                                              *)
(* ------------------------------------------------------------------ *)
\* mode "no-cache": pass
WarmUpNoCacheSaves ==
    /\ pc = "warmUp"
    /\ mode = "no-cache"
    /\ warmUpRuns' = warmUpRuns + 1
    /\ pc' = "save_open"
    /\ UNCHANGED << recency, callVars, ctorVars, buildVars, cacheMemoryDict, colorVars,
                    routeVars, fileVars, exc, dumps, live >>

WarmUpNoCache ==
    /\ pc = "warmUp"
    /\ mode = "no-cache"
    /\ warmUpRuns' = warmUpRuns + 1
    /\ pc' = "idle"
    /\ UNCHANGED << recency, callVars, ctorVars, buildVars, cacheMemoryDict, colorVars,
                    routeVars, fileVars, exc, dumps, live >>

\* mode "no-color": warmUpReqDict = {}, routingTable = {}
WarmUpNoColor ==
    /\ pc = "warmUp"
    /\ mode = "no-color"
    /\ warmUpRuns' = warmUpRuns + 1
    /\ warmUpReqDict' = << >>
    /\ pending' = << >>
    /\ pc' = IF clientIds = << >> THEN "route" ELSE "gen"
    /\ UNCHANGED << recency, callVars, ctorVars, buildVars, cacheMemoryDict, colorVars,
                    hits, misses, fileVars, exc, dumps, live >>

\* contentGenerator.randomGen(n): n identifiers of the content universe
RandomGen(info, n) == SeqsOfLen(Contents(info), n)

Put(d, k, v) == [x \in DOMAIN d \cup {k} |-> IF x = k THEN v ELSE d[x]]

\* request batches in the order of warmUpReqDict.keys()
RECURSIVE Flatten(_, _)
Flatten(keys, d) ==
    IF keys = << >> THEN << >>
    ELSE [i \in 1..Len(d[Head(keys)]) |-> << Head(keys), d[Head(keys)][i] >>]
            \o Flatten(Tail(keys), d)

\* what warmUp does once every client has its batch: route, then save
AfterBatchesSave == "save_open"
AfterBatches == "route"

\* one turn of "for client in self.clientIds"
GenBatch ==
    /\ pc = "gen"
    /\ LET client == clientIds[Cardinality(DOMAIN warmUpReqDict) + 1]
           last == Cardinality(DOMAIN warmUpReqDict) + 1 = Len(clientIds)
       IN  /\ \E batch \in
                  (IF contentGenerator.dist # None THEN RandomGen(networkInfo, warmUpReqNums)
                   ELSE {contentGenerator.custom_data[ReplaceClientCache(client)]}) :
                 /\ warmUpReqDict' = Put(warmUpReqDict, client, batch)
                 /\ IF last
                    THEN /\ pc' = AfterBatches
                         /\ pending' = Flatten(clientIds, Put(warmUpReqDict, client, batch))
                         /\ hits' = 0
                         /\ misses' = 0
                    ELSE /\ pc' = "gen"
                         /\ UNCHANGED << pending, hits, misses >>
    /\ UNCHANGED << recency, callVars, ctorVars, buildVars, cacheMemoryDict, colorVars,
                    fileVars, exc, warmUpRuns, dumps, live >>

NumColors(cl) == IF cl = << >> THEN 1 ELSE Len(cl)

\* cache-capable routers strictly between the client and the origin
CachesOnPath(g, d, client) ==
    IF ~HasPath(g, client, "mainServer") THEN << >>
    ELSE SelectSeq(ShortestPath(g, client, "mainServer"),
                   LAMBDA n : n \in DOMAIN d)

FirstHit(d, path, c) ==
    IF \E i \in 1..Len(path) : Has(d[path[i]], c)
    THEN CHOOSE i \in 1..Len(path) :
            Has(d[path[i]], c) /\ \A j \in 1..(i - 1) : ~Has(d[path[j]], c)
    ELSE 0

\* one request: the first store on the path that holds the content serves
\* it; when none does the origin serves it and every store on the path
\* is offered the content
RouteOne(g, d, size, nColors, client, c) ==
    LET path == CachesOnPath(g, d, client)
        h == FirstHit(d, path, c)
    IN  IF h > 0
        THEN [d EXCEPT ![path[h]] = Touch(@, c)]
        ELSE [r \in DOMAIN d |->
                IF r \in Range(path) THEN Insert(d[r], c, size, nColors) ELSE d[r]]

IsHit(g, d, client, c) == FirstHit(d, CachesOnPath(g, d, client), c) > 0

\* the stores one request reaches: the one that hits, or all on the path
Reached(g, d, client, c) ==
    LET path == CachesOnPath(g, d, client)
        h == FirstHit(d, path, c)
    IN  IF h > 0 THEN {path[h]} ELSE Range(path)

\* warmUpCacheShortestPath, one request at a time
Route ==
    /\ pc = "route"
    /\ pending # << >>
    /\ LET client == Head(pending)[1]
           c == Head(pending)[2]
       IN  /\ cacheMemoryDict' =
                 RouteOne(graph, cacheMemoryDict, fileSize, NumColors(colorList),
                          client, c)
           /\ IF IsHit(graph, cacheMemoryDict, client, c)
              THEN hits' = hits + 1 /\ misses' = misses
              ELSE misses' = misses + 1 /\ hits' = hits
           /\ recency' = Recent(recency, cacheMemoryDict',
                                Reached(graph, cacheMemoryDict, client, c), c)
    /\ pending' = Tail(pending)
    /\ UNCHANGED << pc, callVars, ctorVars, buildVars, colorVars, warmUpReqDict,
                    fileVars, exc, warmUpRuns, dumps, live >>

\* warmUpCacheShortestPath returns; the request batches are not used again
RouteDone ==
    /\ pc = "route"
    /\ pending = << >>
    /\ pc' = "save_open"
    /\ warmUpReqDict' = << >>
    /\ UNCHANGED << recency, callVars, ctorVars, buildVars, cacheMemoryDict, colorVars,
                    pending, hits, misses, fileVars, exc, warmUpRuns, dumps,
                    live >>

\* an interruption (KeyboardInterrupt, the worker being cancelled) that
\* arrives while warmUp builds the batches or routes them: warmUp has no
\* try / finally, so the exception reaches the caller and the object is
\* left as the interrupted statement found it
InterruptThenSave ==
    /\ pc \in {"gen", "route"}
    /\ pc' = "save_open"
    /\ exc' = "KeyboardInterrupt"
    /\ UNCHANGED << recency, callVars, ctorVars, buildVars, cacheMemoryDict, colorVars,
                    routeVars, fileVars, warmUpRuns, dumps, live >>

Interrupt ==
    /\ pc \in {"gen", "route"}
    /\ pc' = "raised"
    /\ exc' = "KeyboardInterrupt"
    /\ UNCHANGED << recency, callVars, ctorVars, buildVars, cacheMemoryDict, colorVars,
                    routeVars, fileVars, warmUpRuns, dumps, live >>

(* ------------------------------------------------------------------ *)
(* Snapshot writers                                                    *)
(* ------------------------------------------------------------------ *)
\* open(path, 'wb'): truncates the file, or fails and leaves it alone
OpenWB(path, next) ==
    \/ /\ files' = [files EXCEPT ![path] = [exists |-> TRUE, data |-> << >>]]
       /\ handles' = handles \cup {path}
       /\ pc' = next
       /\ exc' = exc
    \/ /\ UNCHANGED << files, handles >>
       /\ pc' = "raised"
       /\ exc' = "OSError"

\* a writer that hides the failure of the write from its caller
DumpAndCloseSwallow(path, stream, next) ==
    /\ handles' = handles \ {path}
    /\ dumps' = dumps + 1
    /\ pc' = next
    /\ exc' = exc
    /\ \E k \in {Len(stream)} \cup 0..Min(Len(stream) - 1, MaxWritten) :
          files' = [files EXCEPT ![path].data = SubSeq(stream, 1, k)]

\* pickle.dump(obj, f) inside the with block: all of the stream is written,
\* or the write fails after a proper prefix; the with block closes f
DumpAndClose(path, stream, next) ==
    /\ handles' = handles \ {path}
    /\ dumps' = dumps + 1
    /\ \/ /\ files' = [files EXCEPT ![path].data = stream]
          /\ pc' = next
          /\ exc' = exc
       \/ \E k \in 0..Min(Len(stream) - 1, MaxWritten) :
             /\ files' = [files EXCEPT ![path].data = SubSeq(stream, 1, k)]
             /\ pc' = "raised"
             /\ exc' = "OSError"

DictKeys(info, d) ==
    SelectSeq(IdsOf(info.Routers), LAMBDA id : id \in DOMAIN d)

SaveCacheDictOpen ==
    /\ pc = "save_open"
    /\ OpenWB(CacheDictPath(parallel_idx), "save_dump")
    /\ UNCHANGED << recency, callVars, ctorVars, buildVars, cacheMemoryDict, colorVars,
                    routeVars, warmUpRuns, dumps, live >>

SaveCacheDictDump ==
    /\ pc = "save_dump"
    /\ DumpAndClose(CacheDictPath(parallel_idx),
                    PickleDump(DictKeys(networkInfo, cacheMemoryDict),
                               cacheMemoryDict),
                    "idle")
    /\ UNCHANGED << recency, callVars, ctorVars, buildVars, cacheMemoryDict, colorVars,
                    routeVars, warmUpRuns, live >>

(* ------------------------------------------------------------------ *)
(* Coloring                                                            *)
(* ------------------------------------------------------------------ *)
ColorSet(cl) == IF cl = << >> THEN {0} ELSE Range(cl)

\* nearest server of colour k for a client, by path weight
NearestOfColor(g, m, client, k) ==
    LET cands == {s \in DOMAIN m : m[s] = k /\ HasPath(g, client, s)}
    IN  IF cands = {} THEN None
        ELSE CHOOSE s \in cands :
                \A t \in cands : Distance(g, client, s) <= Distance(g, client, t)

NearestTable(g, m, colors) ==
    [ck \in (DOMAIN g.gw) \X colors |-> NearestOfColor(g, m, ck[1], ck[2])]

\* every colour is used when there are at least as many servers as colours
Colorings(servers, colors) ==
    {m \in [servers -> colors] :
        Cardinality(servers) >= Cardinality(colors)
            => \A k \in colors : \E s \in servers : m[s] = k}

\* getColoringInfo: the pairs (routing hint table, node-to-colour map) it
\* may return
GetColoringInfo(g, cl, servers) ==
    {<< NearestTable(g, m, ColorSet(cl)), m >> :
        m \in Colorings(servers, ColorSet(cl))}

\* mode "tag-color" and the colored modes: getColoringInfo
WarmUpColor ==
    /\ pc = "warmUp"
    /\ mode \notin {"no-cache", "no-color"}
    /\ warmUpRuns' = warmUpRuns + 1
    /\ \E info \in GetColoringInfo(graph, colorList, CapableIds(networkInfo.Routers)) :
          /\ colorRouteInfo' = info[1]
          /\ serverToColorMap' = info[2]
    /\ pc' = "tag"
    /\ UNCHANGED << recency, callVars, ctorVars, buildVars, cacheMemoryDict, routeVars,
                    fileVars, exc, dumps, live >>

AcceptsColor(d, server) == server \in DOMAIN d /\ d[server].type = "Hybrid"

\* the servers assignColorForCacheMemory reaches before it stops
RECURSIVE Tagged(_, _)
Tagged(servers, d) ==
    IF servers = << >> \/ ~AcceptsColor(d, Head(servers)) THEN {}
    ELSE {Head(servers)} \cup Tagged(Tail(servers), d)

TagError(servers, d) ==
    IF \A i \in 1..Len(servers) : AcceptsColor(d, servers[i]) THEN None
    ELSE LET i == CHOOSE k \in 1..Len(servers) :
                     /\ ~AcceptsColor(d, servers[k])
                     /\ \A j \in 1..(k - 1) : AcceptsColor(d, servers[j])
         IN  IF servers[i] \in DOMAIN d THEN "AttributeError" ELSE "KeyError"

MapKeys(info, m) == SelectSeq(IdsOf(info.Routers), LAMBDA id : id \in DOMAIN m)

\* what warmUp does once the tags are applied
AfterTagAlwaysSaves(m) == "nearest_open"
AfterTag(m) == IF m = "tag-color" THEN "idle" ELSE "nearest_open"

\* assignColorForCacheMemory, then the branch of warmUp goes on or returns
AssignColorForCacheMemory ==
    /\ pc = "tag"
    /\ LET servers == MapKeys(networkInfo, serverToColorMap)
           err == TagError(servers, cacheMemoryDict)
       IN  /\ cacheMemoryDict' =
                 [r \in DOMAIN cacheMemoryDict |->
                    IF r \in Tagged(servers, cacheMemoryDict)
                    THEN SetServerColor(cacheMemoryDict[r], serverToColorMap[r])
                    ELSE cacheMemoryDict[r]]
           /\ exc' = IF err # None THEN err ELSE exc
           /\ pc' = IF err # None THEN "raised" ELSE AfterTag(mode)
    /\ UNCHANGED << recency, callVars, ctorVars, buildVars, colorVars, routeVars,
                    fileVars, warmUpRuns, dumps, live >>

TableKeys(t) ==
    LET Pick[S \in SUBSET (DOMAIN t)] ==
            IF S = {} THEN << >>
            ELSE LET x == CHOOSE y \in S : TRUE IN << x >> \o Pick[S \ {x}]
    IN  Pick[DOMAIN t]

\* the table's token stream; keys are (client, colour) pairs
RECURSIVE DumpTable(_, _)
DumpTable(keys, t) ==
    IF keys = << >> THEN << >>
    ELSE << [op |-> "KEY", key |-> Head(keys), val |-> << >>],
            [op |-> "VAL", key |-> << >>, val |-> << t[Head(keys)] >>] >>
            \o DumpTable(Tail(keys), t)

PickleDumpTable(t) ==
    << [op |-> "DICT", key |-> << >>, val |-> << >>] >>
        \o DumpTable(TableKeys(t), t)
        \o << [op |-> "STOP", key |-> << >>, val |-> << >>] >>

SaveNearestColorServerInfoOpen ==
    /\ pc = "nearest_open"
    /\ OpenWB(NearestPath, "nearest_dump")
    /\ UNCHANGED << recency, callVars, ctorVars, buildVars, cacheMemoryDict, colorVars,
                    routeVars, warmUpRuns, dumps, live >>

SaveNearestColorServerInfoDump ==
    /\ pc = "nearest_dump"
    /\ DumpAndClose(NearestPath, PickleDumpTable(colorRouteInfo), "idle")
    /\ UNCHANGED << recency, callVars, ctorVars, buildVars, cacheMemoryDict, colorVars,
                    routeVars, warmUpRuns, live >>

(* ------------------------------------------------------------------ *)
(* Live traffic on a Ready topology: one lookup, and an insert on miss *)
(* ------------------------------------------------------------------ *)
StoreRequest ==
    /\ pc = "idle"
    /\ live < MaxLive
    /\ \E r \in DOMAIN cacheMemoryDict, c \in Contents(networkInfo) :
          /\ cacheMemoryDict' =
                [cacheMemoryDict EXCEPT ![r] =
                   IF Has(@, c) THEN Touch(@, c)
                   ELSE Insert(@, c, fileSize, NumColors(colorList))]
          /\ recency' = Recent(recency, cacheMemoryDict', {r}, c)
    /\ live' = live + 1
    /\ UNCHANGED << pc, callVars, ctorVars, buildVars, colorVars, routeVars,
                    fileVars, exc, warmUpRuns, dumps >>

Next ==
    \/ Build
    \/ Reconfig
    \/ WarmUpNoCache
    \/ WarmUpNoColor
    \/ GenBatch
    \/ Route
    \/ RouteDone
    \/ Interrupt
    \/ SaveCacheDictOpen
    \/ SaveCacheDictDump
    \/ WarmUpColor
    \/ AssignColorForCacheMemory
    \/ SaveNearestColorServerInfoOpen
    \/ SaveNearestColorServerInfoDump
    \/ StoreRequest

Spec == Init /\ [][Next]_vars

(* ------------------------------------------------------------------ *)
(* Properties                                                          *)
(* ------------------------------------------------------------------ *)
Stores == {cacheMemoryDict[r] : r \in DOMAIN cacheMemoryDict}
AllEntries(s) == s.items \o s.overflow
Fresh(s) == s.gen = gen /\ s.items = << >> /\ s.overflow = << >>
InReconfig == caller = "reconfig"
SnapshotOf(idx) == files[CacheDictPath(idx)]

\* C1: every store, whatever its policy and whether build or reconfig made
\* it, occupies no more than its capacity and holds each content
\* identifier at most once, after any run of lookups, inserts and evictions.
C1_CapacityAndNoDuplicates ==
    \A s \in Stores :
        /\ Occupied(s) <= s.maxSize
        /\ Cardinality(Ids(AllEntries(s))) = Len(AllEntries(s))

\* a store that is full after an eviction made room in it
C1_Witness ==
    /\ pc = "idle"
    /\ misses >= 3
    /\ \E s \in Stores : Occupied(s) = s.maxSize /\ Len(s.items) = 2

\* C2: when the warmUp that reconfig calls begins, every store in the
\* mapping was created by this very call and is empty; nothing of the
\* previous generation is left in the mapping.
C2_ReconfigDiscardsPreviousGeneration ==
    (pc = "warmUp" /\ InReconfig) => \A s \in Stores : Fresh(s)

\* reconfig has replaced stores whose contents the last snapshot still shows
C2_Witness ==
    /\ pc = "warmUp"
    /\ InReconfig
    /\ Stores # {}
    /\ IsCompletePickle(SnapshotOf(0).data)
    /\ \E r \in DOMAIN PickleLoad(SnapshotOf(0).data) :
          PickleLoad(SnapshotOf(0).data)[r].items # << >>

\* C3: reconfig gives the i-th cache-capable router, in declaration order, a
\* store of its configured policy with capacity cacheSizeList[i] * alpha;
\* routers without a type get no store and use up no list entry; the keys
\* of the mapping are exactly the cache-capable router ids.
C3_OneStorePerCapableRouter ==
    (InReconfig /\ exc # "IndexError") =>
        LET capable == CacheCapable(networkInfo.Routers)
        IN  /\ DOMAIN cacheMemoryDict = {capable[i].ID : i \in 1..Len(capable)}
            /\ \A r \in Range(networkInfo.Routers) :
                  ~r.hasType => r.ID \notin DOMAIN cacheMemoryDict
            /\ \A i \in 1..Len(capable) :
                  /\ cacheMemoryDict[capable[i].ID].type = capable[i].type
                  /\ cacheMemoryDict[capable[i].ID].maxSize = cacheSizeList[i] * alpha
                  /\ cacheMemoryDict[capable[i].ID].ratio =
                        (IF capable[i].type = "Hybrid"
                         THEN capable[i].capacityRatio ELSE 0)

\* two typed routers around an untyped one, unequal list entries, alpha = 2
C3_Witness ==
    /\ pc = "warmUp"
    /\ InReconfig
    /\ alpha = 2
    /\ cacheSizeList = << 1, 0 >>
    /\ \E i \in 1..(Len(networkInfo.Routers) - 2) :
          /\ networkInfo.Routers[i].hasType
          /\ ~networkInfo.Routers[i + 1].hasType
          /\ networkInfo.Routers[i + 2].hasType

\* C4: whenever reconfig has returned, warmUp has run exactly once during
\* the call, on the stores the call allocated; warmUp never runs twice in
\* one call, whatever the mode.
C4_ReconfigRunsWarmUpOnce ==
    /\ warmUpRuns <= 1
    /\ (pc = "warmUp") => warmUpRuns = 0
    /\ (InReconfig /\ pc \notin {"warmUp", "raised"}) =>
          /\ warmUpRuns = 1
          /\ \A s \in Stores : s.gen = gen

\* reconfig has returned and left the topology Ready
C4_Witness ==
    /\ pc = "idle"
    /\ InReconfig
    /\ warmUpRuns = 1
    /\ live = 0
    /\ Stores # {}

\* the states of a simulation instance, numbered in their order
PhaseRank(p) ==
    CASE p = "new" -> 0
      [] p \in {"warmUp", "gen", "route", "tag"} -> 1           \* Built
      [] p \in {"nearest_open", "nearest_dump"} -> 2            \* Colored
      [] p \in {"save_open", "save_dump"} -> 3                  \* WarmedUp
      [] p = "idle" -> 4                                        \* Ready
      [] OTHER -> 5                                             \* raised

\* a step keeps the order Built, Colored, WarmedUp, Ready, or it is the
\* next reconfig call, which starts over from Built
PhaseStep ==
    \/ PhaseRank(pc') >= PhaseRank(pc)
    \/ pc \in {"idle", "raised"} /\ calls' = calls + 1 /\ caller' = "reconfig"

BuiltStores ==
    LET capable == CacheCapable(networkInfo.Routers)
    IN  /\ DOMAIN cacheMemoryDict = {capable[i].ID : i \in 1..Len(capable)}
        /\ \A i \in 1..Len(capable) :
              /\ cacheMemoryDict[capable[i].ID].type = capable[i].type
              /\ cacheMemoryDict[capable[i].ID].maxSize = capable[i].maxSize * alpha

C6_NoCacheWarmUpIsNoOp ==
    [][(pc = "warmUp" /\ mode = "no-cache") =>
          /\ pc' = "idle"
          /\ UNCHANGED << cacheMemoryDict, serverToColorMap, colorRouteInfo, graph,
                          warmUpReqDict, pending, files, handles, dumps >>]_vars

\* reconfig has returned in mode no-cache
C6_Witness ==
    /\ pc = "idle"
    /\ mode = "no-cache"
    /\ InReconfig
    /\ warmUpRuns = 1
    /\ live = 0
    /\ Stores # {}
    /\ \A p \in FilePaths : ~files[p].exists

\* requests one warm-up serves: warmUpReqNums per client, or the client's trace
RECURSIVE TotalRequests(_)
TotalRequests(clients) ==
    IF clients = << >> THEN 0
    ELSE (IF contentGenerator.dist # None THEN warmUpReqNums
          ELSE Len(contentGenerator.custom_data[ReplaceClientCache(Head(clients))]))
         + TotalRequests(Tail(clients))

\* C7: in mode no-color every client gets a batch, all requests are routed,
\* and only then is the snapshot written: once per warmUp, after the last
\* request, holding the final cache contents.
C7_SnapshotAfterAllClients ==
    mode = "no-color" =>
        /\ (pc = "route") => DOMAIN warmUpReqDict = Range(clientIds)
        /\ (pc \in {"warmUp", "gen", "route", "save_open", "save_dump"}) => dumps = 0
        /\ (pc \in {"save_open", "save_dump", "idle"}) =>
              /\ pending = << >>
              /\ hits + misses = TotalRequests(clientIds)
        /\ (pc = "idle") =>
              /\ dumps = 1
              /\ live = 0 =>
                    SnapshotOf(parallel_idx).data =
                        PickleDump(DictKeys(networkInfo, cacheMemoryDict),
                                   cacheMemoryDict)

\* two clients warmed, the snapshot on disk shows a non-empty store
C7_Witness ==
    /\ pc = "idle"
    /\ mode = "no-color"
    /\ InReconfig
    /\ live = 0
    /\ Len(clientIds) = 2
    /\ IsCompletePickle(SnapshotOf(parallel_idx).data)
    /\ \E r \in DOMAIN cacheMemoryDict :
          PickleLoad(SnapshotOf(parallel_idx).data)[r].items # << >>

TagsApplied ==
    \A s \in DOMAIN serverToColorMap :
        s \in DOMAIN cacheMemoryDict /\ cacheMemoryDict[s].color = serverToColorMap[s]

\* C8: in mode tag-color warmUp colours and tags and then stops: no request
\* is routed and no file is written; in the other colored modes it does
\* the same and then writes the nearest-colour table, after the tags.
C8_TagColorStopsAfterTagging ==
    /\ mode \in {"tag-color", "color"} =>
          /\ pc \notin {"gen", "route", "save_open", "save_dump"}
          /\ hits + misses = 0
          /\ pending = << >>
          /\ \A i \in RunIndexes : ~SnapshotOf(i).exists
          /\ (pc = "idle") => TagsApplied
    /\ mode = "tag-color" =>
          /\ pc \notin {"nearest_open", "nearest_dump"}
          /\ dumps = 0
          /\ ~files[NearestPath].exists
    /\ mode = "color" =>
          /\ (pc \in {"nearest_open", "nearest_dump"}) => (TagsApplied /\ dumps = 0)
          /\ (pc = "idle") =>
                /\ dumps = 1
                /\ files[NearestPath].data = PickleDumpTable(colorRouteInfo)

\* warmUp has returned in mode tag-color with every store tagged
C8_Witness ==
    /\ pc = "idle"
    /\ mode = "tag-color"
    /\ InReconfig
    /\ warmUpRuns = 1
    /\ DOMAIN serverToColorMap # {}
    /\ \A s \in Stores : s.color # NoColor

\* C9: the snapshot write is atomic: a path of the configuration directory
\* that no writer has open holds a complete snapshot or nothing, and no
\* file object is left open once warmUp has returned or raised.
C9_AtomicSnapshotWrite ==
    /\ \A p \in FilePaths :
          (p \notin handles /\ files[p].exists) => IsCompletePickle(files[p].data)
    /\ (pc \in {"idle", "raised"}) => handles = {}

\* C10: when the snapshot write of a no-color warmUp fails, the caller gets
\* the exception and the stores stay as routing left them.
C10_WriteFailureSurfaced ==
    [][(mode = "no-color" /\ pc \in {"save_open", "save_dump"}) =>
          /\ cacheMemoryDict' = cacheMemoryDict
          /\ (pc' = "idle") =>
                /\ exc' = None
                /\ SnapshotOf(parallel_idx)' =
                      [exists |-> TRUE,
                       data |-> PickleDump(DictKeys(networkInfo, cacheMemoryDict),
                                           cacheMemoryDict)]
          /\ (pc' \notin {"idle", "save_dump"}) => (pc' = "raised" /\ exc' = "OSError")]_vars

\* reconfig has raised the write failure; the warmed stores are still there
C10_Witness ==
    /\ pc = "raised"
    /\ exc = "OSError"
    /\ mode = "no-color"
    /\ InReconfig
    /\ dumps = 1
    /\ ~IsCompletePickle(SnapshotOf(parallel_idx).data)
    /\ \E s \in Stores : s.items # << >>

\* C11: a warm-up that is interrupted before it completes leaves nothing
\* that counts: the interruption writes no snapshot and touches no file,
\* the instance is not Ready while the partially warmed stores are in the
\* mapping, the only step out of that state is a reconfig, which replaces
\* every store by a fresh empty one, and a no-color instance is Ready only
\* after a warm-up that routed every request.
Interrupted == exc = "KeyboardInterrupt"
LruScenarioRouted ==
    /\ networkInfo = NetC
    /\ mode = "no-color"
    /\ pc \in {"save_open", "save_dump", "idle"}
    /\ live = 0
    /\ (caller = "build" \/ cacheSizeList = << 2 >>)

IdSeq(es) == [i \in 1..Len(es) |-> es[i].id]

\* C13 as it is written: the trace 1, 2, 3, 1 leaves {3, 1} in the store
\* and scores exactly one hit.
C13_OneHit ==
    LruScenarioRouted =>
        /\ "r1" \in DOMAIN cacheMemoryDict
        /\ Ids(cacheMemoryDict["r1"].items) = {3, 1}
        /\ hits = 1

\* C13: the trace 1, 2, 3, 1 on an LRU store with room for two items leaves
\* 3 and 1 in the store, 1 most recent, and scores no hit: request 3 evicts
\* 1, so the second request for 1 is the fourth miss.
C13_NoHit ==
    LruScenarioRouted =>
        /\ "r1" \in DOMAIN cacheMemoryDict
        /\ cacheMemoryDict["r1"].maxSize = 2
        /\ IdSeq(cacheMemoryDict["r1"].items) = << 3, 1 >>
        /\ hits = 0
        /\ misses = 4

\* build has routed the whole trace
C13_Witness ==
    /\ LruScenarioRouted
    /\ caller = "build"
    /\ pc = "idle"
    /\ hits + misses = 4
    /\ Len(cacheMemoryDict["r1"].items) = 2

\* C14: an LRU store that is full of equal-sized items, whatever hits came
\* before, loses exactly one entry when one more distinct item is inserted:
\* the entry whose last insert-or-hit is the oldest; every other entry stays.
C14_LruEvictsLeastRecentlyTouched ==
    [][\A r \in LruRouters(networkInfo) \cap DOMAIN cacheMemoryDict :
         LET s == cacheMemoryDict[r]
             t == cacheMemoryDict'[r]
         IN  (/\ r \in DOMAIN cacheMemoryDict'
              /\ t.gen = s.gen
              /\ s.items # << >>
              /\ \A i \in 1..Len(s.items) : s.items[i].size = fileSize
              /\ SumSizes(s.items) = s.maxSize
              /\ Ids(t.items) \ Ids(s.items) # {})
             => /\ Len(recency[r]) = Len(s.items)
                /\ Cardinality(Ids(t.items) \ Ids(s.items)) = 1
                /\ Ids(s.items) \ Ids(t.items) = {Head(recency[r])}
                /\ Len(t.items) = Len(s.items)]_vars

\* the store held 3 then 1; a hit on 3 and the insert of 2 left 3 and 2
C14_Witness ==
    /\ networkInfo = NetC
    /\ mode = "no-color"
    /\ caller = "build"
    /\ pc = "idle"
    /\ live = 2
    /\ IdSeq(cacheMemoryDict["r1"].items) = << 3, 2 >>

HybridRouters(info) ==
    {x \in Range(info.Routers) : x.hasType /\ x.type = "Hybrid"}

\* C15: in the store of a router configured Hybrid with ratio r and
\* capacity C, the own-colour region holds own-colour content only and
\* never more than r * C of it, the overflow region holds no own-colour
\* content, and a step that inserts other-colour content leaves the
\* own-colour region as it was.
C15_OwnColorRegionBounded ==
    [][\A x \in HybridRouters(networkInfo) :
         x.ID \in DOMAIN cacheMemoryDict' =>
            LET t == cacheMemoryDict'[x.ID]
                n == NumColors(colorList)
            IN  /\ SumSizes(t.items) * RatioDen <= x.capacityRatio * t.maxSize
                /\ \A i \in 1..Len(t.items) : IsOwn(t, t.items[i].id, n)
                /\ \A i \in 1..Len(t.overflow) : ~IsOwn(t, t.overflow[i].id, n)
                /\ (/\ x.ID \in DOMAIN cacheMemoryDict
                    /\ cacheMemoryDict[x.ID].gen = t.gen
                    /\ Ids(t.overflow) \ Ids(cacheMemoryDict[x.ID].overflow) # {})
                   => t.items = cacheMemoryDict[x.ID].items]_vars

\* a tagged store under overflow pressure: the own-colour region is at its
\* bound r * C, the overflow region is full, three live requests were served
C15_Witness ==
    /\ pc = "idle"
    /\ live = 3
    /\ \E x \in HybridRouters(networkInfo) :
          /\ x.ID \in DOMAIN cacheMemoryDict
          /\ LET s == cacheMemoryDict[x.ID]
             IN  /\ s.color # NoColor
                 /\ s.items # << >>
                 /\ SumSizes(s.items) * RatioDen = x.capacityRatio * s.maxSize
                 /\ IdSeq(s.overflow) = << 3 >>
                 /\ Occupied(s) = s.maxSize

\* stores on the client's path whose whole capacity is less than one item
Oversized(client) ==
    {r \in Range(CachesOnPath(graph, cacheMemoryDict, client)) :
        fileSize > cacheMemoryDict[r].maxSize}

\* C16: an item larger than a store's total capacity is not cached,
\* whatever the policy: the store is left exactly as it was (entries,
\* order, counters, occupied size), nothing is evicted, no exception
\* reaches the caller, and the request that found it nowhere on its path
\* is counted as a miss and the simulation goes on with the next request.
C16_OversizedInsertIsNoOp ==
    [][/\ \A r \in DOMAIN cacheMemoryDict \cap DOMAIN cacheMemoryDict' :
             (/\ cacheMemoryDict'[r].gen = cacheMemoryDict[r].gen
              /\ fileSize > cacheMemoryDict[r].maxSize)
             => /\ cacheMemoryDict'[r].items = cacheMemoryDict[r].items
                /\ cacheMemoryDict'[r].overflow = cacheMemoryDict[r].overflow
                /\ Occupied(cacheMemoryDict'[r]) = 0
       /\ (/\ pc = "route"
           /\ pending # << >>
           /\ pending' = Tail(pending)
           /\ Oversized(Head(pending)[1]) # {}
           /\ \A r \in Range(CachesOnPath(graph, cacheMemoryDict, Head(pending)[1])) :
                 ~Has(cacheMemoryDict[r], Head(pending)[2]))
          => /\ misses' = misses + 1
             /\ hits' = hits
             /\ pc' = "route"
             /\ exc' = exc]_vars

\* reconfig gave one store no room at all and another some: the warm-up
\* ran to its end, the first store is empty, the second is not
C16_Witness ==
    /\ pc = "idle"
    /\ mode = "no-color"
    /\ InReconfig
    /\ exc = None
    /\ misses > 0
    /\ hits + misses = TotalRequests(clientIds)
    /\ \E r \in DOMAIN cacheMemoryDict :
          /\ fileSize > cacheMemoryDict[r].maxSize
          /\ r \in Range(CachesOnPath(graph, cacheMemoryDict, clientIds[1]))
    /\ \E r \in DOMAIN cacheMemoryDict : AllEntries(cacheMemoryDict[r]) # << >>

\* a step changes the snapshot of run index i only while warmUp saves under
\* that index, and a save that returns leaves under the current index a
\* snapshot that reads back as the stores the warm-up ended with
SnapshotsKeyedByRunIndex ==
    /\ \A i \in RunIndexes :
          SnapshotOf(i)' # SnapshotOf(i) =>
             (i = parallel_idx /\ pc \in {"save_open", "save_dump"})
    /\ (mode = "no-color" /\ pc = "save_dump" /\ pc' = "idle") =>
          /\ IsCompletePickle(SnapshotOf(parallel_idx)'.data)
          /\ PickleLoad(SnapshotOf(parallel_idx)'.data) = cacheMemoryDict'

\* a snapshot that is there and that no writer has open can be read back
SnapshotsReadable ==
    \A i \in RunIndexes :
        (SnapshotOf(i).exists /\ CacheDictPath(i) \notin handles) =>
            IsCompletePickle(SnapshotOf(i).data)

\* C17: snapshots are keyed by run index and round-trip: after any sequence
\* of build and reconfig calls, whatever is stored under a run index reads
\* back as the stores at the end of the last warm-up saved under that
\* index, and a warm-up never modifies the snapshot of another run index.
C17_SnapshotsRoundTripPerRunIndex ==
    [][SnapshotsKeyedByRunIndex /\ SnapshotsReadable']_vars

\* C18: in tag-color and the colored modes, every node the colour map names
\* owns a store that accepts a colour, so that tagging raises nothing, and
\* once warmUp is past the tagging every Hybrid store whose router is in
\* the map carries the map's colour: none is left untagged.
C18_EveryMappedStoreTagged ==
    (mode \in {"tag-color", "color"} /\ warmUpRuns = 1) =>
        /\ (pc = "tag") =>
              \A s \in DOMAIN serverToColorMap : AcceptsColor(cacheMemoryDict, s)
        /\ (pc # "tag") =>
              /\ exc \notin {"AttributeError", "KeyError"}
              /\ \A r \in DOMAIN cacheMemoryDict \cap DOMAIN serverToColorMap :
                    cacheMemoryDict[r].type = "Hybrid" =>
                        cacheMemoryDict[r].color = serverToColorMap[r]
====
